---- MODULE Spec2Model ----
(***************************************************************************)
(* Model of segtat/explorer.py, class ModelExplorer:                       *)
(*   train_test   - validated random split of a paired tensor dataset      *)
(*   fit          - epoch loop, learning-rate drop, checkpoints            *)
(*   augmentation - per-sample transform loop, original + augmented        *)
(*   validate     - visualisation branch: binarisation of the prediction   *)
(* Sequences are 1-based: position k of a sequence is Python index k-1.    *)
(* Epoch indices, ratios and thresholds keep the values of the code.       *)
(***************************************************************************)
EXTENDS Integers, Sequences, FiniteSets, TLC

VARIABLES
    \* ---- train_test ----
    train_size,     \* the ratio argument, in hundredths (0.95 is 95)
    dataset,        \* TensorDataset(x_train, y_train): sequence of [x, y]
    splitPc,        \* "call" | "returned" | "ValueError" | "idle"
    train_indices,  \* train.indices of the random_split Subset
    test_indices,   \* test.indices
    train_dataset,  \* returned TensorDataset(train_features, train_target)
    test_dataset,   \* returned TensorDataset(test_features, test_target)
    \* ---- fit (one entry per running call) ----
    calls,          \* the fit calls in progress on the working directory
    epochs,         \* params['epochs']
    i,              \* the loop variable of "for i in range(0, epochs)"
    fitPc,          \* "setup" | "train" | "valid" | "lr" | "ckpt" | "final" |
                    \* "returned" | "raised"
    lr,             \* optimizer.param_groups[0]['lr'], in millionths
    callerLr,       \* history: the rate the optimizer had when fit was called
    lrSets,         \* history: how many times line 64 has assigned the rate
    model,          \* [trained, validated]: passes the model has been through
    saves,          \* history: the torch.save calls that completed, in order
    failedAt,       \* where the exception left fit: [epoch, step], or NoFailure
    files,          \* the working directory: file name -> content
    \* ---- augmentation ----
    augIn,          \* dataset.tensors: sequence of [image, mask] samples
    augPc,          \* "start" | "body" | "concat" | "returned" |
                    \* "UnboundLocalError" | "idle"
    augI,           \* the loop variable of "for i in range(0, len(features))"
    rng,            \* draws taken from the generator since random.seed(7)
    augmented_all_features,   \* Unbound, or the transformed images so far
    augmented_all_labels,     \* Unbound, or the transformed masks so far
    augOut,         \* the returned TensorDataset: [features, targets]
    \* ---- validate (visualisation branch) ----
    vis,            \* params.get('vis') is True
    threshold,      \* None, or <<t>> with the threshold t in quarters
    valPc,          \* "load" | "predict" | "cast" | "below" | "above" |
                    \* "show" | "test" | "returned" | "idle"
    visRound,       \* the loop variable of "for i in range(0, 5)"
    predicted,      \* model.predict(x_tensor).squeeze(), cells in quarters
    pr_mask         \* the array handed to plt.imshow

splitVars == <<train_size, dataset, splitPc, train_indices, test_indices,
               train_dataset, test_dataset>>

fitVars == <<calls, epochs, i, fitPc, lr, callerLr, lrSets, model, saves,
             failedAt, files>>

augVars == <<augIn, augPc, augI, rng, augmented_all_features,
             augmented_all_labels, augOut>>

valVars == <<vis, threshold, valPc, visRound, predicted, pr_mask>>

vars == <<splitVars, fitVars, augVars, valVars>>

(***************************************************************************)
(* Bounds of the model.                                                    *)
(***************************************************************************)
MaxLen == 4          \* largest dataset length given to train_test
MaxRatio == 104      \* largest train_size tried, in hundredths
MaxEpochs == 52      \* largest params['epochs'] of a single fit call
MaxEpochsConc == 11  \* largest params['epochs'] of two concurrent fit calls
MaxAugLen == 3       \* largest dataset length given to augmentation
MaxPixel == 2        \* image contents are 1..MaxPixel, mask contents 0..1
MaskCells == 2       \* cells of a predicted mask
MaxPred == 6         \* predictions and thresholds range over -MaxPred..MaxPred quarters

(***************************************************************************)
(* Python's round() on the exact quotient num/den, den > 0, num >= 0:      *)
(* nearest integer, ties to the even neighbour.                            *)
(***************************************************************************)
PyRound(num, den) ==
    LET q == num \div den
        r == num % den
    IN  IF 2 * r < den THEN q
        ELSE IF 2 * r > den THEN q + 1
        ELSE IF q % 2 = 0 THEN q ELSE q + 1

\* int(): the floor of a non-negative quotient
FloorDiv(num, den) == num \div den

(***************************************************************************)
(* train_test                                                              *)
(***************************************************************************)
RatioLow == 10       \* 0.1  in hundredths
RatioHigh == 99      \* 0.99 in hundredths
RatioScale == 100    \* hundredths per unit of train_size

\* A guard that also refuses the two bounds themselves.
RatioRejectedExclusive(r) == r <= RatioLow \/ r >= RatioHigh

\* if train_size < 0.1 or train_size > 0.99: raise ValueError(...)
RatioRejected(r) == r < RatioLow \/ r > RatioHigh

\* A split size that truncates instead of rounding.
TrainRatioFloor(n, r) == FloorDiv(n * r, RatioScale)

\* train_ratio = round(len(dataset) * train_size)
TrainRatio(n, r) == PyRound(n * r, RatioScale)

\* test_ratio = len(dataset) - train_ratio
TestRatio(n, r) == n - TrainRatio(n, r)

\* randperm(n): every ordering of the n positions
Perms(n) == {p \in [1..n -> 1..n] : \A a, b \in 1..n : p[a] = p[b] => a = b}

\* random_split(dataset, [l1, l2]): consecutive slices of one permutation
RandomSplit(perm, l1, l2) ==
    <<SubSeq(perm, 1, l1), SubSeq(perm, l1 + 1, l1 + l2)>>

\* subset.dataset[subset.indices] followed by TensorDataset(features, target):
\* both tensors are indexed with the same index list.
Materialize(ds, indices) ==
    [k \in 1..Len(indices) |-> [x |-> ds[indices[k]].x, y |-> ds[indices[k]].y]]

\* x_train[j] and y_train[j] carry the original index j
PairedDataset(n) == [j \in 1..n |-> [x |-> <<"x", j>>, y |-> <<"y", j>>]]

InitSplit ==
    /\ train_size \in 0..MaxRatio
    /\ \E n \in 0..MaxLen : dataset = PairedDataset(n)
    /\ splitPc = "call"
    /\ train_indices = <<>>
    /\ test_indices = <<>>
    /\ train_dataset = <<>>
    /\ test_dataset = <<>>

IdleSplit ==
    /\ train_size = 0
    /\ dataset = <<>>
    /\ splitPc = "idle"
    /\ train_indices = <<>>
    /\ test_indices = <<>>
    /\ train_dataset = <<>>
    /\ test_dataset = <<>>

TrainTestRaise ==
    /\ splitPc = "call"
    /\ RatioRejected(train_size)
    /\ splitPc' = "ValueError"
    /\ UNCHANGED <<train_size, dataset, train_indices, test_indices,
                   train_dataset, test_dataset>>
    /\ UNCHANGED <<fitVars, augVars, valVars>>

TrainTestSplit ==
    /\ splitPc = "call"
    /\ ~RatioRejected(train_size)
    /\ \E perm \in Perms(Len(dataset)) :
         LET n == Len(dataset)
             parts == RandomSplit(perm, TrainRatio(n, train_size),
                                  TestRatio(n, train_size))
         IN  /\ train_indices' = parts[1]
             /\ test_indices' = parts[2]
             /\ train_dataset' = Materialize(dataset, parts[1])
             /\ test_dataset' = Materialize(dataset, parts[2])
    /\ splitPc' = "returned"
    /\ UNCHANGED <<train_size, dataset>>
    /\ UNCHANGED <<fitVars, augVars, valVars>>

NextSplit == TrainTestRaise \/ TrainTestSplit

(***************************************************************************)
(* fit                                                                     *)
(***************************************************************************)
FitTrainSize == 95   \* train_size=0.95 of the split fit performs
LowLr == 2           \* 0.000002 in millionths
LrNum == 8           \* 0.8 = LrNum / LrDen
LrDen == 10
ConcRate == 100      \* 0.0001: the rate both concurrent callers start from
CallerRates == {LowLr, ConcRate}   \* rates the caller's optimizer may arrive with
NoFailure == [epoch |-> -1, step |-> "none"]
Partial == [by |-> 0, trained |-> -1, validated |-> -1]  \* a truncated file

\* os.path.join(self.working_dir, 'best_model.pth'): the same for every call
PathToSavePerCall(p) == IF p = 1 THEN "best_model.1.pth" ELSE "best_model.2.pth"
PathToSave(p) == "best_model.pth"

\* os.path.join(self.working_dir, 'prom.pth')
PathPromSave(p) == "prom.pth"

\* i == round(params['epochs']*0.8)
IsLrDropEpochFloor(k, e) == k = FloorDiv(e * LrNum, LrDen)
IsLrDropEpochFrom(k, e) == k >= PyRound(e * LrNum, LrDen)
IsLrDropEpoch(k, e) == k = PyRound(e * LrNum, LrDen)

\* i == 10 or i == 20 or i == 30 or i == 40 or i == 50
IsCheckpointEpochEvery(k) == k % 10 = 0
IsCheckpointEpoch(k) == k = 10 \/ k = 20 \/ k = 30 \/ k = 40 \/ k = 50

\* range(0, epochs): the position after the body of epoch k-1
LoopHead(k, e) == IF k < e THEN "train" ELSE "final"

\* No try/except anywhere in fit: an exception of a pass or of torch.save
\* leaves the call at once.
SwallowAndContinue(step, k, e) ==
    IF step = "train" THEN "valid"
    ELSE IF step = "valid" THEN "lr"
    ELSE IF step = "ckpt" THEN LoopHead(k + 1, e)
    ELSE "returned"
Propagate(step, k, e) == "raised"

\* torch.save(model, path): the pickled model as it is at the call
Snapshot(p) == [by |-> p, trained |-> model[p].trained,
                validated |-> model[p].validated]

\* open(path, 'wb') then write: the file is created or replaced
WriteFile(fs, path, content) ==
    [f \in DOMAIN fs \cup {path} |-> IF f = path THEN content ELSE fs[f]]

\* torch.save raising: before the file was opened (nothing changes), or after
\* it was opened for writing (the path holds a truncated file)
FailedWrite(fs, path) == {fs, WriteFile(fs, path, Partial)}

InitFitCalls(cs, maxE, rates) ==
    /\ calls = cs
    /\ epochs \in [cs -> 0..maxE]
    /\ lr \in [cs -> rates]
    /\ callerLr = lr
    /\ i = [p \in cs |-> 0]
    /\ fitPc = [p \in cs |-> "setup"]
    /\ lrSets = [p \in cs |-> 0]
    /\ model = [p \in cs |-> [trained |-> 0, validated |-> 0]]
    /\ saves = [p \in cs |-> <<>>]
    /\ failedAt = [p \in cs |-> NoFailure]
    /\ files = <<>>

IdleFit == InitFitCalls({}, 0, {})

\* lines 30-53: paths, the 95/5 split, loaders, epoch runners
FitSetup(p) ==
    /\ p \in calls
    /\ fitPc[p] = "setup"
    /\ ~RatioRejected(FitTrainSize)
    /\ fitPc' = [fitPc EXCEPT ![p] = LoopHead(0, epochs[p])]
    /\ UNCHANGED <<calls, epochs, callerLr, i, lr, lrSets, model, saves, failedAt, files>>
    /\ UNCHANGED <<splitVars, augVars, valVars>>

\* train_logs = train_epoch.run(train_loader)
TrainPass(p) ==
    /\ p \in calls
    /\ fitPc[p] = "train"
    /\ model' = [model EXCEPT ![p].trained = @ + 1]
    /\ fitPc' = [fitPc EXCEPT ![p] = "valid"]
    /\ UNCHANGED <<calls, epochs, callerLr, i, lr, lrSets, saves, failedAt, files>>
    /\ UNCHANGED <<splitVars, augVars, valVars>>

\* valid_logs = valid_epoch.run(valid_loader)
ValidPass(p) ==
    /\ p \in calls
    /\ fitPc[p] = "valid"
    /\ model' = [model EXCEPT ![p].validated = @ + 1]
    /\ fitPc' = [fitPc EXCEPT ![p] = "lr"]
    /\ UNCHANGED <<calls, epochs, callerLr, i, lr, lrSets, saves, failedAt, files>>
    /\ UNCHANGED <<splitVars, augVars, valVars>>

\* a pass raises
PassFail(p) ==
    /\ p \in calls
    /\ fitPc[p] \in {"train", "valid"}
    /\ fitPc' = [fitPc EXCEPT ![p] = Propagate(fitPc[p], i[p], epochs[p])]
    /\ failedAt' = [failedAt EXCEPT ![p] = [epoch |-> i[p], step |-> fitPc[p]]]
    /\ UNCHANGED <<calls, epochs, callerLr, i, lr, lrSets, model, saves, files>>
    /\ UNCHANGED <<splitVars, augVars, valVars>>

\* lines 62-64
LrStep(p) ==
    /\ p \in calls
    /\ fitPc[p] = "lr"
    /\ IF IsLrDropEpoch(i[p], epochs[p])
       THEN /\ lr' = [lr EXCEPT ![p] = LowLr]
            /\ lrSets' = [lrSets EXCEPT ![p] = @ + 1]
       ELSE UNCHANGED <<lr, lrSets>>
    /\ fitPc' = [fitPc EXCEPT ![p] = "ckpt"]
    /\ UNCHANGED <<calls, epochs, callerLr, i, model, saves, failedAt, files>>
    /\ UNCHANGED <<splitVars, augVars, valVars>>

\* lines 65-66, then the next iteration
Checkpoint(p) ==
    /\ p \in calls
    /\ fitPc[p] = "ckpt"
    /\ IF IsCheckpointEpoch(i[p])
       THEN /\ files' = WriteFile(files, PathPromSave(p), Snapshot(p))
            /\ saves' = [saves EXCEPT ![p] =
                            Append(@, [file |-> PathPromSave(p), epoch |-> i[p]])]
       ELSE UNCHANGED <<files, saves>>
    /\ i' = [i EXCEPT ![p] = @ + 1]
    /\ fitPc' = [fitPc EXCEPT ![p] = LoopHead(i[p] + 1, epochs[p])]
    /\ UNCHANGED <<calls, epochs, callerLr, lr, lrSets, model, failedAt>>
    /\ UNCHANGED <<splitVars, augVars, valVars>>

\* torch.save(model, path_prom_save) raises
CheckpointFail(p) ==
    /\ p \in calls
    /\ fitPc[p] = "ckpt"
    /\ IsCheckpointEpoch(i[p])
    /\ files' \in FailedWrite(files, PathPromSave(p))
    /\ fitPc' = [fitPc EXCEPT ![p] = Propagate("ckpt", i[p], epochs[p])]
    /\ i' = [i EXCEPT ![p] = IF fitPc'[p] = "raised" THEN @ ELSE @ + 1]
    /\ failedAt' = [failedAt EXCEPT ![p] = [epoch |-> i[p], step |-> "ckpt"]]
    /\ UNCHANGED <<calls, epochs, callerLr, lr, lrSets, model, saves>>
    /\ UNCHANGED <<splitVars, augVars, valVars>>

\* lines 68-70
FinalSave(p) ==
    /\ p \in calls
    /\ fitPc[p] = "final"
    /\ files' = WriteFile(files, PathToSave(p), Snapshot(p))
    /\ saves' = [saves EXCEPT ![p] =
                    Append(@, [file |-> PathToSave(p), epoch |-> epochs[p]])]
    /\ fitPc' = [fitPc EXCEPT ![p] = "returned"]
    /\ UNCHANGED <<calls, epochs, callerLr, i, lr, lrSets, model, failedAt>>
    /\ UNCHANGED <<splitVars, augVars, valVars>>

\* torch.save(model, path_to_save) raises
FinalSaveFail(p) ==
    /\ p \in calls
    /\ fitPc[p] = "final"
    /\ files' \in FailedWrite(files, PathToSave(p))
    /\ fitPc' = [fitPc EXCEPT ![p] = Propagate("final", i[p], epochs[p])]
    /\ failedAt' = [failedAt EXCEPT ![p] = [epoch |-> epochs[p], step |-> "final"]]
    /\ UNCHANGED <<calls, epochs, callerLr, i, lr, lrSets, model, saves>>
    /\ UNCHANGED <<splitVars, augVars, valVars>>

Calls == {1, 2}

NextFit ==
    \E p \in Calls :
        \/ FitSetup(p)
        \/ TrainPass(p)
        \/ ValidPass(p)
        \/ PassFail(p)
        \/ LrStep(p)
        \/ Checkpoint(p)
        \/ CheckpointFail(p)
        \/ FinalSave(p)
        \/ FinalSaveFail(p)

(***************************************************************************)
(* augmentation (vis=False)                                                *)
(***************************************************************************)
Seed == 7            \* random.seed(7)
Unbound == [bound |-> FALSE, value |-> <<>>]  \* a local name not yet assigned
Bound(v) == [bound |-> TRUE, value |-> v]
NoDataset == [features |-> <<>>, targets |-> <<>>]

\* transformations(image=image, mask=mask): one draw of the generator decides
\* the geometric transform, applied to the image and to its mask alike
Transformations(image, mask, draw) ==
    [image |-> <<"T", draw, image>>, mask |-> <<"T", draw, mask>>]

Samples == [image : 1..MaxPixel, mask : 0..1]

SeqsUpTo(S, n) == UNION {[1..k -> S] : k \in 0..n}

Column(ds, field) == [k \in 1..Len(ds) |-> ds[k][field]]

InitAug ==
    /\ augIn \in SeqsUpTo(Samples, MaxAugLen)
    /\ augPc = "start"
    /\ augI = 0
    /\ rng = 0
    /\ augmented_all_features = Unbound
    /\ augmented_all_labels = Unbound
    /\ augOut = NoDataset

IdleAug ==
    /\ augIn = <<>>
    /\ augPc = "idle"
    /\ augI = 0
    /\ rng = 0
    /\ augmented_all_features = Unbound
    /\ augmented_all_labels = Unbound
    /\ augOut = NoDataset

\* lines 161-175: the transform composition, features, targets, stacked, seed
AugStart ==
    /\ augPc = "start"
    /\ rng' = Seed
    /\ augI' = 0
    /\ augPc' = IF 0 < Len(augIn) THEN "body" ELSE "concat"
    /\ UNCHANGED <<augIn, augmented_all_features, augmented_all_labels, augOut>>
    /\ UNCHANGED <<splitVars, fitVars, valVars>>

\* lines 179-228: one iteration of the loop
AugBody ==
    /\ augPc = "body"
    /\ LET transformed == Transformations(augIn[augI + 1].image,
                                          augIn[augI + 1].mask, rng)
       IN  /\ augmented_all_features' =
                 IF augI = 0 THEN Bound(<<transformed.image>>)
                 ELSE Bound(Append(augmented_all_features.value, transformed.image))
           /\ augmented_all_labels' =
                 IF augI = 0 THEN Bound(<<transformed.mask>>)
                 ELSE Bound(Append(augmented_all_labels.value, transformed.mask))
    /\ rng' = rng + 1
    /\ augI' = augI + 1
    /\ augPc' = IF augI + 1 < Len(augIn) THEN "body" ELSE "concat"
    /\ UNCHANGED <<augIn, augOut>>
    /\ UNCHANGED <<splitVars, fitVars, valVars>>

\* lines 230-233 with both accumulators bound
AugReturn ==
    /\ augPc = "concat"
    /\ augmented_all_features.bound
    /\ augOut' = [features |-> Column(augIn, "image") \o augmented_all_features.value,
                  targets |-> Column(augIn, "mask") \o augmented_all_labels.value]
    /\ augPc' = "returned"
    /\ UNCHANGED <<augIn, augI, rng, augmented_all_features, augmented_all_labels>>
    /\ UNCHANGED <<splitVars, fitVars, valVars>>

\* line 230 reading augmented_all_features before any assignment
AugRaise ==
    /\ augPc = "concat"
    /\ ~augmented_all_features.bound
    /\ augPc' = "UnboundLocalError"
    /\ UNCHANGED <<augIn, augI, rng, augmented_all_features,
                   augmented_all_labels, augOut>>
    /\ UNCHANGED <<splitVars, fitVars, valVars>>

NextAug == AugStart \/ AugBody \/ AugReturn \/ AugRaise

(***************************************************************************)
(* validate                                                                *)
(***************************************************************************)
One == 4             \* 1.0 in quarters
VisRounds == 5       \* for i in range(0, 5)
Uint8Range == 256
None == <<>>         \* threshold=None; a given threshold t is <<t>>

PredValues == (-MaxPred)..MaxPred

\* .astype(np.uint8) of one float cell: the fraction is dropped; a value at
\* or below -1.0 is outside uint8 and the conversion is undefined: builds
\* give the wrapped value or 0
AsUint8(v) ==
    IF v >= 0 THEN {v \div One}
    ELSE IF v > -One THEN {0}
    ELSE {0, Uint8Range - ((-v) \div One)}

\* pr_mask[pr_mask < threshold] = 0
AssignBelow(mask, t) == [k \in DOMAIN mask |-> IF mask[k] < t THEN 0 ELSE mask[k]]

\* pr_mask[pr_mask >= threshold] = 1, in quarters
AssignAtOrAbove(mask, t) ==
    [k \in DOMAIN mask |-> IF mask[k] >= t THEN One ELSE mask[k]]

InitVal ==
    /\ vis \in BOOLEAN
    /\ threshold \in {None} \cup {<<t>> : t \in PredValues}
    /\ valPc = "load"
    /\ visRound = 0
    /\ predicted = <<>>
    /\ pr_mask = <<>>

IdleVal ==
    /\ vis = FALSE
    /\ threshold = None
    /\ valPc = "idle"
    /\ visRound = 0
    /\ predicted = <<>>
    /\ pr_mask = <<>>

\* lines 81-85
ValLoad ==
    /\ valPc = "load"
    /\ valPc' = IF vis THEN "predict" ELSE "test"
    /\ UNCHANGED <<vis, threshold, visRound, predicted, pr_mask>>
    /\ UNCHANGED <<splitVars, fitVars, augVars>>

\* lines 86-92: a random sample, the model's prediction for it
Predict ==
    /\ valPc = "predict"
    /\ predicted' \in [1..MaskCells -> PredValues]
    /\ pr_mask' = predicted'
    /\ valPc' = IF threshold = None THEN "cast" ELSE "below"
    /\ UNCHANGED <<vis, threshold, visRound>>
    /\ UNCHANGED <<splitVars, fitVars, augVars>>

\* line 93
Cast ==
    /\ valPc = "cast"
    /\ pr_mask' \in {m \in [DOMAIN pr_mask ->
                               UNION {AsUint8(pr_mask[k]) : k \in DOMAIN pr_mask}] :
                        \A k \in DOMAIN pr_mask : m[k] \in AsUint8(pr_mask[k])}
    /\ valPc' = "show"
    /\ UNCHANGED <<vis, threshold, visRound, predicted>>
    /\ UNCHANGED <<splitVars, fitVars, augVars>>

\* lines 95-96
Below ==
    /\ valPc = "below"
    /\ pr_mask' = AssignBelow(pr_mask, threshold[1])
    /\ valPc' = "above"
    /\ UNCHANGED <<vis, threshold, visRound, predicted>>
    /\ UNCHANGED <<splitVars, fitVars, augVars>>

\* line 97
Above ==
    /\ valPc = "above"
    /\ pr_mask' = AssignAtOrAbove(pr_mask, threshold[1])
    /\ valPc' = "show"
    /\ UNCHANGED <<vis, threshold, visRound, predicted>>
    /\ UNCHANGED <<splitVars, fitVars, augVars>>

\* lines 99-106: pr_mask and the true label are displayed; next iteration
Show ==
    /\ valPc = "show"
    /\ visRound' = visRound + 1
    /\ valPc' = IF visRound + 1 < VisRounds THEN "predict" ELSE "test"
    /\ predicted' = <<>>
    /\ pr_mask' = <<>>
    /\ UNCHANGED <<vis, threshold>>
    /\ UNCHANGED <<splitVars, fitVars, augVars>>

\* lines 108-117: the validation pass over the test set
TestPass ==
    /\ valPc = "test"
    /\ valPc' = "returned"
    /\ UNCHANGED <<vis, threshold, visRound, predicted, pr_mask>>
    /\ UNCHANGED <<splitVars, fitVars, augVars>>

NextVal == ValLoad \/ Predict \/ Cast \/ Below \/ Above \/ Show \/ TestPass

(***************************************************************************)
(* Specifications: one per operation, the other operations idle            *)
(***************************************************************************)
InitSplitOnly == InitSplit /\ IdleFit /\ IdleAug /\ IdleVal

SpecSplit == InitSplitOnly /\ [][NextSplit]_vars

\* one fit call
InitFit == IdleSplit /\ InitFitCalls({1}, MaxEpochs, CallerRates) /\ IdleAug /\ IdleVal

SpecFit == InitFit /\ [][NextFit]_vars

\* two fit calls on the same working directory
InitFitConc ==
    IdleSplit /\ InitFitCalls(Calls, MaxEpochsConc, {ConcRate}) /\ IdleAug /\ IdleVal

SpecFitConc == InitFitConc /\ [][NextFit]_vars

InitAugOnly == IdleSplit /\ IdleFit /\ InitAug /\ IdleVal

SpecAug == InitAugOnly /\ [][NextAug]_vars

InitValOnly == IdleSplit /\ IdleFit /\ IdleAug /\ InitVal

SpecVal == InitValOnly /\ [][NextVal]_vars

(***************************************************************************)
(* Properties                                                              *)
(***************************************************************************)
Range(f) == {f[k] : k \in DOMAIN f}
Abs(a) == IF a < 0 THEN -a ELSE a
SetMax(S) == CHOOSE m \in S : \A o \in S : o <= m
MilestoneSet == {10, 20, 30, 40, 50}
BestFile == "best_model.pth"
PromFile == "prom.pth"

\* C1: a returned split partitions the n original indices into a train part
\* and a test part with no index in both and none missing, the train part has
\* round(n*r) samples (the nearest integer, a tie going to the even one, as
\* Python's round does) and the test part the rest, and in both returned
\* datasets sample k is feature and label of one and the same original index.
C1_SplitPartitions ==
    splitPc = "returned" =>
        LET n == Len(dataset)
            nTrain == Len(train_dataset)
            off == 2 * Abs(RatioScale * nTrain - n * train_size)
        IN  /\ Range(train_indices) \cap Range(test_indices) = {}
            /\ Range(train_indices) \cup Range(test_indices) = 1..n
            /\ Cardinality(Range(train_indices)) = Len(train_indices)
            /\ Cardinality(Range(test_indices)) = Len(test_indices)
            /\ Len(train_indices) = nTrain
            /\ Len(test_indices) = Len(test_dataset)
            /\ off <= RatioScale
            /\ off = RatioScale => nTrain % 2 = 0
            /\ Len(test_dataset) = n - nTrain
            /\ \A k \in 1..nTrain :
                 train_dataset[k] = [x |-> <<"x", train_indices[k]>>,
                                     y |-> <<"y", train_indices[k]>>]
            /\ \A k \in 1..Len(test_dataset) :
                 test_dataset[k] = [x |-> <<"x", test_indices[k]>>,
                                    y |-> <<"y", test_indices[k]>>]

\* a split of 4 samples at 0.8 into 3 and 1 that is not the identity order
C1_Witness ==
    /\ splitPc = "returned"
    /\ Len(dataset) = 4
    /\ train_size = 80
    /\ Len(train_dataset) = 3
    /\ Len(test_dataset) = 1
    /\ train_indices = <<3, 1, 4>>

C3_CheckpointSchedule ==
    fitPc[1] # "raised" =>
        LET log == saves[1]
            e == epochs[1]
            proms == {k \in DOMAIN log : log[k].file = PromFile}
            bests == {k \in DOMAIN log : log[k].file = BestFile}
            done == {m \in MilestoneSet : m < i[1] /\ m < e}
        IN  /\ \A k \in DOMAIN log : log[k].file \in {PromFile, BestFile}
            /\ {log[k].epoch : k \in proms} = done
            /\ \A k, l \in proms : k < l => log[k].epoch < log[l].epoch
            /\ bests = IF fitPc[1] = "returned" THEN {Len(log)} ELSE {}
            /\ \A k \in bests : log[k].epoch = e
            /\ fitPc[1] = "returned" =>
                 /\ i[1] = e
                 /\ BestFile \in DOMAIN files
                 /\ files[BestFile] = [by |-> 1, trained |-> e, validated |-> e]
            /\ fitPc[1] # "returned" => BestFile \notin DOMAIN files
            /\ PromFile \in DOMAIN files <=> done # {}
            /\ done # {} =>
                 files[PromFile] = [by |-> 1, trained |-> SetMax(done) + 1,
                                    validated |-> SetMax(done) + 1]
            /\ e >= 11 /\ i[1] > 10 => PromFile \in DOMAIN files
            /\ e <= 10 => PromFile \notin DOMAIN files

\* a run of 51 epochs has returned after writing prom.pth five times
C3_Witness ==
    /\ fitPc[1] = "returned"
    /\ epochs[1] = 51
    /\ Len(saves[1]) = 6
    /\ files[PromFile].trained = 51

\* round(0.8*epochs): the one integer within 1/2 of 4*epochs/5
DropEpoch(e) == CHOOSE r \in 0..e : Abs(5 * r - 4 * e) <= 2

\* the call is past line 64 of epoch DropEpoch(epochs)
PastDrop(p) ==
    \/ i[p] > DropEpoch(epochs[p])
    \/ /\ i[p] = DropEpoch(epochs[p])
       /\ \/ fitPc[p] = "ckpt"
          \/ fitPc[p] = "raised" /\ failedAt[p].step = "ckpt"

FailureLeaves(p) ==
    LET at == failedAt[p]
    IN  /\ fitPc[p] = "raised"
        /\ ~ENABLED NextFit
        /\ model[p].trained = at.epoch + (IF at.step = "train" THEN 0 ELSE 1)
        /\ model[p].validated = at.epoch + (IF at.step = "ckpt" THEN 1 ELSE 0)
        /\ BestFile \notin DOMAIN files
        /\ \A k \in DOMAIN saves[p] : saves[p][k].file # BestFile

\* prom.pth as the last milestone epoch before epoch k wrote it
PromAsWritten(p, k) ==
    LET earlier == {m \in MilestoneSet : m < k}
    IN  IF earlier = {} THEN PromFile \notin DOMAIN files
        ELSE /\ PromFile \in DOMAIN files
             /\ files[PromFile] = [by |-> p, trained |-> SetMax(earlier) + 1,
                                   validated |-> SetMax(earlier) + 1]

\* C9 as stated: after a failure of a pass or of a checkpoint write during
\* epoch k the call has raised, nothing more runs, best_model.pth was not
\* written, and a prom.pth of an earlier milestone epoch is as it was written.
C9_FailureKeepsEarlierCheckpoint ==
    failedAt[1].step \in {"train", "valid", "ckpt"} =>
        /\ FailureLeaves(1)
        /\ (\E m \in MilestoneSet : m < failedAt[1].epoch) =>
             PromAsWritten(1, failedAt[1].epoch)

\* C9 amended: after a failure of a pass or of a checkpoint write during
\* epoch k the call has raised, nothing more runs and best_model.pth was not
\* written; after a failed pass prom.pth is as the last earlier milestone
\* epoch wrote it; after a failed write of prom.pth the file is either that
\* or a truncated file.
C9_FailureKeepsCheckpointUnlessItsWriteFails ==
    failedAt[1].step \in {"train", "valid", "ckpt"} =>
        /\ FailureLeaves(1)
        /\ failedAt[1].step \in {"train", "valid"} =>
             PromAsWritten(1, failedAt[1].epoch)
        /\ failedAt[1].step = "ckpt" =>
             \/ PromAsWritten(1, failedAt[1].epoch)
             \/ PromFile \in DOMAIN files /\ files[PromFile] = Partial

\* the validation pass of epoch 15 failed and left the prom.pth of epoch 10
C9_Witness ==
    /\ fitPc[1] = "raised"
    /\ failedAt[1] = [epoch |-> 15, step |-> "valid"]
    /\ epochs[1] = 20
    /\ files[PromFile] = [by |-> 1, trained |-> 11, validated |-> 11]

\* the final model of call p
FinalModel(p) == [by |-> p, trained |-> epochs[p], validated |-> epochs[p]]

\* C10: whatever two concurrent calls do, the working directory holds no file
\* but best_model.pth and prom.pth; best_model.pth is one returned call's
\* final model or a truncated file, prom.pth one call's snapshot of a
\* milestone epoch or a truncated file; once both calls have returned,
\* best_model.pth holds exactly one of the two final models that were written.
C10_TwoFixedFilesLastWriteWins ==
    /\ DOMAIN files \subseteq {BestFile, PromFile}
    /\ BestFile \in DOMAIN files =>
         \/ files[BestFile] = Partial
         \/ \E p \in calls : fitPc[p] = "returned" /\ files[BestFile] = FinalModel(p)
    /\ PromFile \in DOMAIN files =>
         \/ files[PromFile] = Partial
         \/ \E p \in calls : \E m \in MilestoneSet :
              /\ m < epochs[p]
              /\ files[PromFile] = [by |-> p, trained |-> m + 1, validated |-> m + 1]
    /\ (\A p \in calls : fitPc[p] = "returned") =>
         /\ BestFile \in DOMAIN files
         /\ files[BestFile].by \in calls
         /\ \A p \in calls : \E k \in DOMAIN saves[p] : saves[p][k].file = BestFile

\* both calls have returned; best_model.pth is call 1's final model, prom.pth
\* call 2's snapshot of epoch 10, and call 2's final model is gone
C10_Witness ==
    /\ \A p \in calls : fitPc[p] = "returned"
    /\ calls = {1, 2}
    /\ DOMAIN files = {BestFile, PromFile}
    /\ files[BestFile] = FinalModel(1)
    /\ files[PromFile].by = 2
    /\ saves[2][Len(saves[2])].file = BestFile
    /\ FinalModel(2) # FinalModel(1)

\* C6: augmentation of any dataset of n samples, n = 0 included, returns 2n
\* samples: the n input samples in order, then their n transforms in order,
\* features and labels of equal length.
C6_AugmentationDoubles ==
    augPc \in {"returned", "UnboundLocalError"} =>
        LET n == Len(augIn)
        IN  /\ augPc = "returned"
            /\ Len(augOut.features) = 2 * n
            /\ Len(augOut.targets) = 2 * n
            /\ \A k \in 1..n :
                 /\ augOut.features[k] = augIn[k].image
                 /\ augOut.targets[k] = augIn[k].mask
                 /\ \E d \in Seed..(Seed + n) :
                      /\ augOut.features[n + k] = Transformations(augIn[k].image, augIn[k].mask, d).image
                      /\ augOut.targets[n + k] = Transformations(augIn[k].image, augIn[k].mask, d).mask

\* C7: with a threshold t given, the mask handed to the display has 1 where
\* the prediction is >= t and 0 elsewhere, for every t.
C7_ThresholdBinarizes ==
    valPc = "show" /\ threshold # None =>
        \A k \in DOMAIN pr_mask :
            pr_mask[k] = IF predicted[k] >= threshold[1] THEN One ELSE 0

\* C8: with no threshold given, the mask handed to the display has, for every
\* predicted value in [0, 1], the nearer of 0 and 1.
C8_NoThresholdRounds ==
    valPc = "show" /\ threshold = None =>
        \A k \in DOMAIN pr_mask :
            predicted[k] >= 0 /\ predicted[k] <= One =>
                /\ 2 * predicted[k] > One => pr_mask[k] = 1
                /\ 2 * predicted[k] < One => pr_mask[k] = 0

====
